---- MODULE Spec2Model ----
(***************************************************************************)
(* A model of the LZ4 decompressor of this repository: the output buffer   *)
(* abstraction (src/src/buf.rs), the input cursor (decompress/iter.rs),    *)
(* the raw block decoder (decompress/raw.rs) and the frame decoder         *)
(* (decompress/framed.rs).  Bytes are integers 0..255, 32-bit words are    *)
(* pairs <<hi, lo>> of 16-bit halves so that no intermediate value leaves  *)
(* the range of the model checker's integers.                              *)
(***************************************************************************)
EXTENDS Integers, Sequences, FiniteSets, TLC

VARIABLES
    mode,       \* which entry point runs: "buf", "block" or "frame"
    out,        \* the caller's output buffer (a Buf<u8>)
    appended,   \* history: the bytes appended by the successful Buf calls
    last,       \* history: the last Buf call and what it returned
    input,      \* the byte slice handed to decompress / decompress_block
    idx,        \* ByteIter.idx of the frame reader
    data,       \* the slice the block decoder reads
    bidx,       \* ByteIter.idx of the block reader
    pc,         \* position in the running function
    res,        \* the call's result: "None" while running, "Ok", an error, "Panic"
    loc,        \* the running function's locals
    meta        \* history: how the input was built

vars == <<mode, out, appended, last, input, idx, data, bidx, pc, res, loc, meta>>

(***************************************************************************)
(* Bounds of the model.                                                    *)
(***************************************************************************)
MaxCap == 6        \* ArrayBuf capacities 0..MaxCap handed to the decoders
BufCap == 3        \* ArrayBuf capacities 0..BufCap in the buffer specification
MaxBlockLen == 4   \* length of the enumerated raw block inputs
MaxBlocks == 2     \* blocks in a generated frame

\* ------------------------------------------------------------------------
\* Sequence helpers
\* ------------------------------------------------------------------------
Take(s, n) == SubSeq(s, 1, n)
Fill(n, x) == [i \in 1..n |-> x]
Pow2(n) == 2 ^ n

\* ------------------------------------------------------------------------
\* 32-bit words as <<hi, lo>>, both in 0..65535
\* ------------------------------------------------------------------------
Add32(a, b) ==
    LET lo == a[2] + b[2]
    IN  <<(a[1] + b[1] + (lo \div 65536)) % 65536, lo % 65536>>
AddInt32(a, n) == Add32(a, <<(n \div 65536) % 65536, n % 65536>>)
\* (x * y) mod 2^16 for x, y < 2^16
MulLo16(x, y) == ((x * (y % 256)) + (((x * (y \div 256)) % 256) * 256)) % 65536
\* (x * y) div 2^16 mod 2^16 for x, y < 2^16
MulHi16(x, y) ==
    LET t == x * (y \div 256)
        s == (x * (y % 256)) + ((t % 256) * 256)
    IN  ((s \div 65536) + (t \div 256)) % 65536
Mul32(a, b) ==
    <<(MulHi16(a[2], b[2]) + MulLo16(a[1], b[2]) + MulLo16(a[2], b[1])) % 65536,
      MulLo16(a[2], b[2])>>
RotlSmall(a, r) ==
    <<((a[1] * Pow2(r)) % 65536) + (a[2] \div Pow2(16 - r)),
      ((a[2] * Pow2(r)) % 65536) + (a[1] \div Pow2(16 - r))>>
Rotl32(a, r) == IF r < 16 THEN RotlSmall(a, r) ELSE RotlSmall(<<a[2], a[1]>>, r - 16)
Shr32(a, r) ==
    IF r >= 16 THEN <<0, a[1] \div Pow2(r - 16)>>
    ELSE <<a[1] \div Pow2(r), (a[2] \div Pow2(r)) + ((a[1] % Pow2(r)) * Pow2(16 - r))>>
RECURSIVE Xor16(_, _)
Xor16(a, b) ==
    IF a = 0 THEN b
    ELSE IF b = 0 THEN a
    ELSE ((a + b) % 2) + (2 * Xor16(a \div 2, b \div 2))
Xor32(a, b) == <<Xor16(a[1], b[1]), Xor16(a[2], b[2])>>

\* u32::from_le_bytes / to_le_bytes
U32FromLe(b) == <<(b[4] * 256) + b[3], (b[2] * 256) + b[1]>>
U32ToLe(w) == <<w[2] % 256, w[2] \div 256, w[1] % 256, w[1] \div 256>>
\* u64::to_le_bytes of a small number
U64ToLe(n) == <<n % 256, (n \div 256) % 256, (n \div 65536) % 256, 0, 0, 0, 0, 0>>

\* ------------------------------------------------------------------------
\* XXH32 with seed 0 (twox_hash::XxHash32): write(bytes)...; finish()
\* ------------------------------------------------------------------------
PRIME32_1 == <<40503, 31153>>    \* 0x9E3779B1
PRIME32_2 == <<34283, 51831>>    \* 0x85EBCA77
PRIME32_3 == <<49842, 44605>>    \* 0xC2B2AE3D
PRIME32_4 == <<10196, 60207>>    \* 0x27D4EB2F
PRIME32_5 == <<5718, 26545>>     \* 0x165667B1

XxhRound(acc, w) == Mul32(Rotl32(Add32(acc, Mul32(w, PRIME32_2)), 13), PRIME32_1)
RECURSIVE XxhStripes(_, _, _)
XxhStripes(v, b, i) ==
    IF i + 16 > Len(b) THEN v
    ELSE XxhStripes([k \in 1..4 |->
                        XxhRound(v[k], U32FromLe(SubSeq(b, i + 4 * k - 3, i + 4 * k)))],
                    b, i + 16)
RECURSIVE XxhTail(_, _, _)
XxhTail(h, b, i) ==
    IF i + 4 <= Len(b)
    THEN XxhTail(Mul32(Rotl32(Add32(h, Mul32(U32FromLe(SubSeq(b, i + 1, i + 4)),
                                             PRIME32_3)), 17), PRIME32_4),
                 b, i + 4)
    ELSE IF i < Len(b)
    THEN XxhTail(Mul32(Rotl32(Add32(h, Mul32(<<0, b[i + 1]>>, PRIME32_5)), 11),
                       PRIME32_1),
                 b, i + 1)
    ELSE h
XxhAvalanche(h) ==
    LET h1 == Mul32(Xor32(h, Shr32(h, 15)), PRIME32_2)
        h2 == Mul32(Xor32(h1, Shr32(h1, 13)), PRIME32_3)
    IN  Xor32(h2, Shr32(h2, 16))
XxHash32(b) ==
    LET n  == Len(b)
        v0 == <<Add32(PRIME32_1, PRIME32_2), PRIME32_2, <<0, 0>>,
                <<65535 - PRIME32_1[1], 65536 - PRIME32_1[2]>>>>
        v  == XxhStripes(v0, b, 0)
        h0 == IF n >= 16
              THEN Add32(Add32(Rotl32(v[1], 1), Rotl32(v[2], 7)),
                         Add32(Rotl32(v[3], 12), Rotl32(v[4], 18)))
              ELSE PRIME32_5
    IN  XxhAvalanche(XxhTail(AddInt32(h0, n), b, (n \div 16) * 16))

\* ------------------------------------------------------------------------
\* Buf<u8> (src/src/buf.rs).  A buffer is [kind, arr, len]: ArrayBuf<u8, N>
\* has kind "array" and arr of length N; HeapBuf has kind "heap" and arr the
\* Vec's elements.
\* ------------------------------------------------------------------------
ArrayBuf_new(n) == [kind |-> "array", arr |-> Fill(n, 0), len |-> 0]
HeapBuf_new == [kind |-> "heap", arr |-> <<>>, len |-> 0]

buf_len(b) == IF b.kind = "array" THEN b.len ELSE Len(b.arr)
as_slice(b) == IF b.kind = "array" THEN SubSeq(b.arr, 1, b.len) ELSE b.arr

reserve(b, count) ==
    IF b.kind = "array" THEN b.len + count <= Len(b.arr) ELSE TRUE

\* returns [buf, ret]: ret is <<>> for None, <<item>> for Some(item)
push(b, item) ==
    IF b.kind = "array"
    THEN IF b.len + 1 > Len(b.arr)
         THEN [buf |-> b, ret |-> <<item>>]
         ELSE [buf |-> [b EXCEPT !.arr[b.len + 1] = item, !.len = b.len + 1],
               ret |-> <<>>]
    ELSE [buf |-> [b EXCEPT !.arr = Append(b.arr, item), !.len = Len(b.arr) + 1],
          ret |-> <<>>]

\* returns [buf, ok]
extend(b, s) ==
    IF b.kind = "array"
    THEN IF ~reserve(b, Len(s))
         THEN [buf |-> b, ok |-> FALSE]
         ELSE [buf |-> [b EXCEPT
                          !.arr = [i \in 1..Len(b.arr) |->
                                     IF i > b.len /\ i <= b.len + Len(s)
                                     THEN s[i - b.len] ELSE b.arr[i]],
                          !.len = b.len + Len(s)],
               ok |-> TRUE]
    ELSE [buf |-> [b EXCEPT !.arr = b.arr \o s, !.len = Len(b.arr) + Len(s)],
          ok |-> TRUE]

RECURSIVE PushN(_, _, _)
PushN(b, n, item) == IF n = 0 THEN b ELSE PushN(push(b, item).buf, n - 1, item)

\* a variant of resize that cuts the buffer down to a smaller len
resize_truncating(b, len, item) ==
    IF len > buf_len(b)
    THEN IF ~reserve(b, len - buf_len(b))
         THEN [buf |-> b, ok |-> FALSE]
         ELSE [buf |-> PushN(b, len - buf_len(b), item), ok |-> TRUE]
    ELSE [buf |-> [b EXCEPT !.len = len,
                            !.arr = IF b.kind = "array" THEN b.arr ELSE Take(b.arr, len)],
          ok |-> FALSE]
\* Buf::resize, the trait's provided method; returns [buf, ok]
resize(b, len, item) ==
    IF len > buf_len(b)
    THEN LET diff == len - buf_len(b)
         IN  IF ~reserve(b, diff)
             THEN [buf |-> b, ok |-> FALSE]
             ELSE [buf |-> PushN(b, diff, item), ok |-> TRUE]
    ELSE [buf |-> b, ok |-> FALSE]


\* ------------------------------------------------------------------------
\* ByteIter (src/src/decompress/iter.rs).  A read returns [ok, val, idx]:
\* ok = FALSE stands for Err(UnexpectedEof), idx is the cursor afterwards.
\* ------------------------------------------------------------------------
Eof(i) == [ok |-> FALSE, val |-> 0, idx |-> i]

take(bytes, i, count) ==
    IF i + count > Len(bytes) THEN Eof(i)
    ELSE [ok |-> TRUE, val |-> SubSeq(bytes, i + 1, i + count), idx |-> i + count]

read_byte(bytes, i) ==
    IF i >= Len(bytes) THEN Eof(i)
    ELSE [ok |-> TRUE, val |-> bytes[i + 1], idx |-> i + 1]

\* read::<N>: N calls of read_byte; the cursor keeps the bytes read before an Err
read(bytes, i, n) ==
    IF i + n > Len(bytes) THEN Eof(Len(bytes))
    ELSE [ok |-> TRUE, val |-> SubSeq(bytes, i + 1, i + n), idx |-> i + n]

\* a variant of read_int_loop that leaves the final byte out of the sum
RECURSIVE read_int_loop_exclusive(_, _, _)
read_int_loop_exclusive(bytes, i, x) ==
    LET r == read_byte(bytes, i)
    IN  IF ~r.ok THEN Eof(r.idx)
        ELSE IF r.val # 255 THEN [ok |-> TRUE, val |-> x, idx |-> r.idx]
        ELSE read_int_loop_exclusive(bytes, r.idx, x + r.val)
RECURSIVE read_int_loop(_, _, _)
read_int_loop(bytes, i, x) ==
    LET r == read_byte(bytes, i)
    IN  IF ~r.ok THEN Eof(r.idx)
        ELSE IF r.val # 255 THEN [ok |-> TRUE, val |-> x + r.val, idx |-> r.idx]
        ELSE read_int_loop(bytes, r.idx, x + r.val)

read_int(bytes, i, first) ==
    IF first # 15 THEN [ok |-> TRUE, val |-> first, idx |-> i]
    ELSE read_int_loop(bytes, i, 15)

\* ------------------------------------------------------------------------
\* The decoder's state as one record, so that a whole call can also be
\* evaluated as a function of its input (Run).  An Option is a sequence:
\* <<>> for None, <<x>> for Some(x).
\* ------------------------------------------------------------------------
NoLoc ==
    [flags |-> 0, max_block_size |-> 0, content_size |-> <<>>, hbytes |-> <<>>,
     size |-> <<0, 0>>, hash |-> <<>>, token |-> 0, len |-> 0, offset |-> 0,
     ret |-> "caller"]

\* the state at the entry of decompress_block(data, out)
BlockCall(bytes, buf) ==
    [out |-> buf, input |-> bytes, idx |-> 0, data |-> bytes, bidx |-> 0,
     pc |-> "b_token", res |-> "None", loc |-> NoLoc]

\* the state at the entry of decompress(input, out)
FrameCall(bytes, buf) ==
    [out |-> buf, input |-> bytes, idx |-> 0, data |-> <<>>, bidx |-> 0,
     pc |-> "f_magic", res |-> "None", loc |-> NoLoc]

\* the running function returns r to its caller (Err(..)? propagates)
Finish(s, r) == [s EXCEPT !.pc = "done", !.res = r]

\* decompress_block returns r: to the caller, or into the frame decoder's
\* `super::raw::decompress_block(block, out)?`
BlockReturn(s, r) ==
    IF s.loc.ret = "frame" /\ r = "Ok"
    THEN [s EXCEPT !.pc = "f_block_checksum"]
    ELSE Finish(s, r)

\* ------------------------------------------------------------------------
\* decompress_block (src/src/decompress/raw.rs)
\* ------------------------------------------------------------------------
\* `while let Ok(token) = reader.read_byte()` and the literal length
block_token(s) ==
    LET t == read_byte(s.data, s.bidx)
        l == read_int(s.data, t.idx, t.val \div 16)
    IN  IF ~t.ok THEN BlockReturn(s, "Ok")
        ELSE IF ~l.ok THEN BlockReturn([s EXCEPT !.bidx = l.idx], "UnexpectedEof")
        ELSE [s EXCEPT !.bidx = l.idx, !.loc.token = t.val, !.loc.len = l.val,
                       !.pc = "b_literal"]

\* a variant of block_literal without the `if !out.reserve(len)` check
block_literal_unchecked(s) ==
    LET t == take(s.data, s.bidx, s.loc.len)
    IN  IF ~t.ok THEN BlockReturn(s, "UnexpectedEof")
        ELSE [s EXCEPT !.out = extend(s.out, t.val).buf, !.bidx = t.idx,
                       !.pc = "b_offset"]
\* reserve, take and extend of the literal run
block_literal(s) ==
    LET t == take(s.data, s.bidx, s.loc.len)
    IN  IF ~reserve(s.out, s.loc.len) THEN BlockReturn(s, "MemoryLimitExceeded")
        ELSE IF ~t.ok THEN BlockReturn(s, "UnexpectedEof")
        ELSE [s EXCEPT !.out = extend(s.out, t.val).buf, !.bidx = t.idx,
                       !.pc = "b_offset"]

\* a variant of block_offset for which a missing offset low byte is an error
block_offset_strict(s) ==
    LET low  == read_byte(s.data, s.bidx)
        high == read_byte(s.data, low.idx)
        m    == read_int(s.data, high.idx, s.loc.token % 16)
    IN  IF ~low.ok THEN BlockReturn(s, "UnexpectedEof")
        ELSE IF ~high.ok THEN BlockReturn([s EXCEPT !.bidx = high.idx], "UnexpectedEof")
        ELSE IF ~m.ok THEN BlockReturn([s EXCEPT !.bidx = m.idx], "UnexpectedEof")
        ELSE [s EXCEPT !.bidx = m.idx, !.loc.offset = low.val + (256 * high.val),
                       !.loc.len = 4 + m.val, !.pc = "b_copy"]
\* the offset and the match length
block_offset(s) ==
    LET low  == read_byte(s.data, s.bidx)
        high == read_byte(s.data, low.idx)
        m    == read_int(s.data, high.idx, s.loc.token % 16)
    IN  IF ~low.ok THEN BlockReturn(s, "Ok")
        ELSE IF ~high.ok THEN BlockReturn([s EXCEPT !.bidx = high.idx], "UnexpectedEof")
        ELSE IF ~m.ok THEN BlockReturn([s EXCEPT !.bidx = m.idx], "UnexpectedEof")
        ELSE [s EXCEPT !.bidx = m.idx, !.loc.offset = low.val + (256 * high.val),
                       !.loc.len = 4 + m.val, !.pc = "b_copy"]

\* a variant of copy_loop that repeats the last byte of the output
RECURSIVE copy_loop_last(_, _, _, _)
copy_loop_last(b, start, i, len) ==
    IF i = len THEN [buf |-> b, res |-> "Ok"]
    ELSE IF start < 0 \/ start + i >= buf_len(b) THEN [buf |-> b, res |-> "Panic"]
    ELSE copy_loop_last(push(b, as_slice(b)[buf_len(b)]).buf, start, i + 1, len)
\* the byte-by-byte loop of copy: out.as_slice()[start + idx], then push
RECURSIVE copy_loop(_, _, _, _)
copy_loop(b, start, i, len) ==
    IF i = len THEN [buf |-> b, res |-> "Ok"]
    ELSE IF start < 0 \/ start + i >= buf_len(b) THEN [buf |-> b, res |-> "Panic"]
    ELSE copy_loop(push(b, as_slice(b)[start + i + 1]).buf, start, i + 1, len)

\* copy(offset, len, out); returns [buf, res]
copy(offset, len, b) ==
    LET out_len == buf_len(b)
    IN  IF offset = 0 THEN [buf |-> b, res |-> "ZeroMatchOffset"]
        ELSE IF offset = 1
        THEN IF out_len = 0
             THEN [buf |-> b, res |-> "Panic"]      \* .last().expect(..) on None
             ELSE LET r == resize(b, out_len + len, as_slice(b)[out_len])
                  IN  [buf |-> r.buf,
                       res |-> IF r.ok THEN "Ok" ELSE "MemoryLimitExceeded"]
        ELSE IF ~reserve(b, len) THEN [buf |-> b, res |-> "MemoryLimitExceeded"]
        ELSE copy_loop(b, out_len - offset, 0, len)   \* out_len - offset underflows

block_copy(s) ==
    LET c == copy(s.loc.offset, s.loc.len, s.out)
    IN  IF c.res # "Ok" THEN BlockReturn([s EXCEPT !.out = c.buf], c.res)
        ELSE [s EXCEPT !.out = c.buf, !.pc = "b_token"]


\* ------------------------------------------------------------------------
\* decompress (src/src/decompress/framed.rs)
\* ------------------------------------------------------------------------
MAGIC == <<6221, 8708>>      \* 0x184D2204
VERSION == 1

IndependentBlocks == 32
BlockChecksums == 16
ContentSize == 8
ContentChecksum == 4
DictionaryId == 1

\* bitflags: contains, from_bits_truncate
contains(flags, bit) == (flags \div bit) % 2 = 1
from_bits_truncate(raw) ==
    (IF contains(raw, IndependentBlocks) THEN IndependentBlocks ELSE 0)
    + (IF contains(raw, BlockChecksums) THEN BlockChecksums ELSE 0)
    + (IF contains(raw, ContentSize) THEN ContentSize ELSE 0)
    + (IF contains(raw, ContentChecksum) THEN ContentChecksum ELSE 0)
    + (IF contains(raw, DictionaryId) THEN DictionaryId ELSE 0)

\* returns [ok, val]: val the flags, or the error
parse_flags(raw) ==
    IF raw \div 64 # VERSION THEN [ok |-> FALSE, val |-> "VersionNotSupported"]
    ELSE IF contains(raw, 2) THEN [ok |-> FALSE, val |-> "ReservedBitHigh"]
    ELSE [ok |-> TRUE, val |-> from_bits_truncate(raw)]

\* a u32 below 2^31 as a number
AsUsize(w) == (w[1] * 65536) + w[2]

frame_magic(s) ==
    LET r == read(s.input, s.idx, 4)
    IN  IF ~r.ok THEN Finish([s EXCEPT !.idx = r.idx], "UnexpectedEof")
        ELSE IF U32FromLe(r.val) # MAGIC THEN Finish([s EXCEPT !.idx = r.idx], "InvalidMagic")
        ELSE [s EXCEPT !.idx = r.idx, !.pc = "f_flags"]

frame_flags(s) ==
    LET r == read_byte(s.input, s.idx)
        f == parse_flags(r.val)
    IN  IF ~r.ok THEN Finish(s, "UnexpectedEof")
        ELSE IF ~f.ok THEN Finish([s EXCEPT !.idx = r.idx], f.val)
        ELSE [s EXCEPT !.idx = r.idx, !.loc.hbytes = <<r.val>>, !.loc.flags = f.val,
                       !.pc = "f_descriptor"]

frame_descriptor(s) ==
    LET r == read_byte(s.input, s.idx)
        i == (r.val \div 16) % 8
    IN  IF ~r.ok THEN Finish(s, "UnexpectedEof")
        ELSE IF r.val >= 128 \/ r.val % 16 # 0
        THEN Finish([s EXCEPT !.idx = r.idx], "ReservedBitHigh")
        ELSE IF i \notin 4..7 THEN Finish([s EXCEPT !.idx = r.idx], "InvalidMaxBlockSize")
        ELSE [s EXCEPT !.idx = r.idx, !.loc.hbytes = Append(s.loc.hbytes, r.val),
                       !.loc.max_block_size = Pow2((i * 2) + 8),
                       !.pc = "f_content_size"]

frame_content_size(s) ==
    LET r == read(s.input, s.idx, 8)
    IN  IF ~contains(s.loc.flags, ContentSize) THEN [s EXCEPT !.pc = "f_dictionary"]
        ELSE IF ~r.ok THEN Finish([s EXCEPT !.idx = r.idx], "UnexpectedEof")
        ELSE [s EXCEPT !.idx = r.idx, !.loc.hbytes = s.loc.hbytes \o r.val,
                       !.loc.content_size = <<r.val>>, !.pc = "f_dictionary"]

\* assert!(!flags.contains(Flags::DictionaryId), ..)
frame_dictionary(s) ==
    IF contains(s.loc.flags, DictionaryId) THEN Finish(s, "Panic")
    ELSE [s EXCEPT !.pc = "f_header_checksum"]

\* (hasher.finish() >> 8) as u8
header_hash(hbytes) == U32ToLe(XxHash32(hbytes))[2]

\* a variant of frame_header_checksum that reads the byte and compares nothing
frame_header_checksum_unchecked(s) ==
    LET r == read_byte(s.input, s.idx)
    IN  IF ~r.ok THEN Finish(s, "UnexpectedEof")
        ELSE [s EXCEPT !.idx = r.idx, !.pc = "f_block_header"]
frame_header_checksum(s) ==
    LET r == read_byte(s.input, s.idx)
    IN  IF ~r.ok THEN Finish(s, "UnexpectedEof")
        ELSE IF r.val # header_hash(s.loc.hbytes)
        THEN Finish([s EXCEPT !.idx = r.idx], "HeaderChecksumInvalid")
        ELSE [s EXCEPT !.idx = r.idx, !.pc = "f_block_header"]

\* a variant of frame_block_header that takes a block header of 0x80000000
\* for the end marker as well
frame_block_header_masked(s) ==
    LET r    == read(s.input, s.idx, 4)
        size == U32FromLe(r.val)
    IN  IF ~r.ok THEN Finish([s EXCEPT !.idx = r.idx], "UnexpectedEof")
        ELSE [s EXCEPT !.idx = r.idx, !.loc.size = size, !.loc.hash = <<>>,
                       !.pc = IF size \in {<<0, 0>>, <<32768, 0>>} THEN "f_end_marker"
                              ELSE IF size[1] >= 32768 THEN "f_uncompressed"
                              ELSE IF AsUsize(size) > s.loc.max_block_size
                                   THEN "f_oversize"
                              ELSE "f_compressed"]
\* `let size = u32::from_le_bytes(reader.read()?)` and the arm `match size` takes
frame_block_header(s) ==
    LET r    == read(s.input, s.idx, 4)
        size == U32FromLe(r.val)
    IN  IF ~r.ok THEN Finish([s EXCEPT !.idx = r.idx], "UnexpectedEof")
        ELSE [s EXCEPT !.idx = r.idx, !.loc.size = size, !.loc.hash = <<>>,
                       !.pc = IF size = <<0, 0>> THEN "f_end_marker"
                              ELSE IF size[1] >= 32768 THEN "f_uncompressed"
                              ELSE IF AsUsize(size) > s.loc.max_block_size
                                   THEN "f_oversize"
                              ELSE "f_compressed"]

\* the closure hash_slice
hash_slice(flags, slice) ==
    IF ~contains(flags, BlockChecksums) THEN <<>> ELSE <<XxHash32(slice)>>

\* the arm `0 =>`
frame_end_marker(s) ==
    LET r == read(s.input, s.idx, 4)
    IN  IF ~contains(s.loc.flags, BlockChecksums) THEN [s EXCEPT !.pc = "f_content_checksum"]
        ELSE IF ~r.ok THEN Finish([s EXCEPT !.idx = r.idx], "UnexpectedEof")
        ELSE IF XxHash32(<<>>) # U32FromLe(r.val)
        THEN Finish([s EXCEPT !.idx = r.idx], "BlockChecksumInvalid")
        ELSE [s EXCEPT !.idx = r.idx, !.pc = "f_content_checksum"]

\* the arms that append the payload verbatim, `count` bytes of it
frame_verbatim(s, count) ==
    LET r == take(s.input, s.idx, count)
        e == extend(s.out, r.val)
    IN  IF ~r.ok THEN Finish(s, "UnexpectedEof")
        ELSE IF ~e.ok
        THEN Finish([s EXCEPT !.idx = r.idx, !.loc.hash = hash_slice(s.loc.flags, r.val)],
                    "MemoryLimitExceeded")
        ELSE [s EXCEPT !.idx = r.idx, !.loc.hash = hash_slice(s.loc.flags, r.val),
                       !.out = e.buf, !.pc = "f_block_checksum"]

\* the arm `size if size & 0x80000000 != 0 =>`
frame_uncompressed(s) ==
    frame_verbatim(s, ((s.loc.size[1] % 32768) * 65536) + s.loc.size[2])

\* the arm `size if size > max_block_size =>`
frame_oversize(s) == frame_verbatim(s, AsUsize(s.loc.size))

\* the arm `size =>`: take, hash_slice, and the call of decompress_block
frame_compressed(s) ==
    LET r == take(s.input, s.idx, AsUsize(s.loc.size))
    IN  IF ~r.ok THEN Finish(s, "UnexpectedEof")
        ELSE [s EXCEPT !.idx = r.idx, !.loc.hash = hash_slice(s.loc.flags, r.val),
                       !.loc.ret = "frame", !.data = r.val, !.bidx = 0,
                       !.pc = "b_token"]

\* `if let Some(actual) = hash.take()`
frame_block_checksum(s) ==
    LET r == read(s.input, s.idx, 4)
    IN  IF s.loc.hash = <<>> THEN [s EXCEPT !.pc = "f_block_header"]
        ELSE IF ~r.ok THEN Finish([s EXCEPT !.idx = r.idx, !.loc.hash = <<>>], "UnexpectedEof")
        ELSE IF s.loc.hash[1] # U32FromLe(r.val)
        THEN Finish([s EXCEPT !.idx = r.idx, !.loc.hash = <<>>], "BlockChecksumInvalid")
        ELSE [s EXCEPT !.idx = r.idx, !.loc.hash = <<>>, !.pc = "f_block_header"]

\* the content checksum and `Ok(())`
frame_content_checksum(s) ==
    LET r == read(s.input, s.idx, 4)
    IN  IF ~contains(s.loc.flags, ContentChecksum) THEN Finish(s, "Ok")
        ELSE IF ~r.ok THEN Finish([s EXCEPT !.idx = r.idx], "UnexpectedEof")
        ELSE IF U32FromLe(r.val) # XxHash32(as_slice(s.out))
        THEN Finish([s EXCEPT !.idx = r.idx], "ContentChecksumInvalid")
        ELSE Finish([s EXCEPT !.idx = r.idx], "Ok")

\* ------------------------------------------------------------------------
\* One step of the running call, and the whole call as a function
\* ------------------------------------------------------------------------
Step(s) ==
    CASE s.pc = "b_token"            -> block_token(s)
      [] s.pc = "b_literal"          -> block_literal(s)
      [] s.pc = "b_offset"           -> block_offset(s)
      [] s.pc = "b_copy"             -> block_copy(s)
      [] s.pc = "f_magic"            -> frame_magic(s)
      [] s.pc = "f_flags"            -> frame_flags(s)
      [] s.pc = "f_descriptor"       -> frame_descriptor(s)
      [] s.pc = "f_content_size"     -> frame_content_size(s)
      [] s.pc = "f_dictionary"       -> frame_dictionary(s)
      [] s.pc = "f_header_checksum"  -> frame_header_checksum(s)
      [] s.pc = "f_block_header"     -> frame_block_header(s)
      [] s.pc = "f_end_marker"       -> frame_end_marker(s)
      [] s.pc = "f_uncompressed"     -> frame_uncompressed(s)
      [] s.pc = "f_oversize"         -> frame_oversize(s)
      [] s.pc = "f_compressed"       -> frame_compressed(s)
      [] s.pc = "f_block_checksum"   -> frame_block_checksum(s)
      [] s.pc = "f_content_checksum" -> frame_content_checksum(s)

RECURSIVE Run(_)
Run(s) == IF s.pc = "done" THEN s ELSE Run(Step(s))

\* decompress_block(bytes, buf) and decompress(bytes, buf), run to their end
decompress_block(bytes, buf) == Run(BlockCall(bytes, buf))
decompress(bytes, buf) == Run(FrameCall(bytes, buf))


\* ------------------------------------------------------------------------
\* The state machine: the running call's state is the variables
\* ------------------------------------------------------------------------
Cur ==
    [out |-> out, input |-> input, idx |-> idx, data |-> data, bidx |-> bidx,
     pc |-> pc, res |-> res, loc |-> loc]

Set(s) ==
    /\ out' = s.out
    /\ input' = s.input
    /\ idx' = s.idx
    /\ data' = s.data
    /\ bidx' = s.bidx
    /\ pc' = s.pc
    /\ res' = s.res
    /\ loc' = s.loc
    /\ UNCHANGED <<mode, appended, last, meta>>

Start(m, s, info) ==
    /\ mode = m
    /\ out = s.out
    /\ input = s.input
    /\ idx = s.idx
    /\ data = s.data
    /\ bidx = s.bidx
    /\ pc = s.pc
    /\ res = s.res
    /\ loc = s.loc
    /\ appended = <<>>
    /\ last = [op |-> "new", ok |-> TRUE, before |-> <<>>]
    /\ meta = info

\* how an input was built: its family, the input before a byte of it was
\* changed, the frame's parameters, a number (a capacity, a position), and
\* the bytes the caller's buffer held at the call
NoParams == [flags |-> 0, bd |-> 0, blocks |-> <<>>, delta |-> 0, endck |-> FALSE, cck |-> TRUE]
Meta(family, base, p, n) ==
    [family |-> family, base |-> base, p |-> p, n |-> n, pre |-> <<>>]

BlockToken == pc = "b_token" /\ Set(block_token(Cur))
BlockLiteral == pc = "b_literal" /\ Set(block_literal(Cur))
BlockOffset == pc = "b_offset" /\ Set(block_offset(Cur))
BlockCopy == pc = "b_copy" /\ Set(block_copy(Cur))

NextBlock == BlockToken \/ BlockLiteral \/ BlockOffset \/ BlockCopy

FrameMagic == pc = "f_magic" /\ Set(frame_magic(Cur))
FrameFlags == pc = "f_flags" /\ Set(frame_flags(Cur))
FrameDescriptor == pc = "f_descriptor" /\ Set(frame_descriptor(Cur))
FrameContentSize == pc = "f_content_size" /\ Set(frame_content_size(Cur))
FrameDictionary == pc = "f_dictionary" /\ Set(frame_dictionary(Cur))
FrameHeaderChecksum == pc = "f_header_checksum" /\ Set(frame_header_checksum(Cur))
FrameBlockHeader == pc = "f_block_header" /\ Set(frame_block_header(Cur))
FrameEndMarker == pc = "f_end_marker" /\ Set(frame_end_marker(Cur))
FrameUncompressed == pc = "f_uncompressed" /\ Set(frame_uncompressed(Cur))
FrameOversize == pc = "f_oversize" /\ Set(frame_oversize(Cur))
FrameCompressed == pc = "f_compressed" /\ Set(frame_compressed(Cur))
FrameBlockChecksum == pc = "f_block_checksum" /\ Set(frame_block_checksum(Cur))
FrameContentChecksum == pc = "f_content_checksum" /\ Set(frame_content_checksum(Cur))

NextFrame ==
    \/ FrameMagic \/ FrameFlags \/ FrameDescriptor \/ FrameContentSize
    \/ FrameDictionary \/ FrameHeaderChecksum \/ FrameBlockHeader
    \/ FrameEndMarker \/ FrameUncompressed \/ FrameOversize \/ FrameCompressed
    \/ FrameBlockChecksum \/ FrameContentChecksum
    \/ BlockToken \/ BlockLiteral \/ BlockOffset \/ BlockCopy

\* ------------------------------------------------------------------------
\* The buffer on its own: any sequence of push, reserve, extend and resize
\* calls on an ArrayBuf<u8, N>
\* ------------------------------------------------------------------------
BufBytes == {0, 1}
RECURSIVE SeqsUpTo(_, _)
SeqsUpTo(S, n) ==
    IF n = 0 THEN {<<>>}
    ELSE LET shorter == SeqsUpTo(S, n - 1)
         IN  shorter \cup {Append(q, x) : q \in {t \in shorter : Len(t) = n - 1}, x \in S}

InitBuf ==
    \E n \in 0..BufCap :
        /\ mode = "buf"
        /\ out = ArrayBuf_new(n)
        /\ appended = <<>>
        /\ last = [op |-> "new", ok |-> TRUE, before |-> <<>>]
        /\ input = <<>> /\ idx = 0 /\ data = <<>> /\ bidx = 0
        /\ pc = "buf" /\ res = "None" /\ loc = NoLoc
        /\ meta = Meta("buf", <<>>, NoParams, n)

BufCall(op, ok, buf, added) ==
    /\ out' = buf
    /\ appended' = IF ok THEN appended \o added ELSE appended
    /\ last' = [op |-> op, ok |-> ok, before |-> as_slice(out)]
    /\ UNCHANGED <<mode, input, idx, data, bidx, pc, res, loc, meta>>

BufPush ==
    /\ pc = "buf"
    /\ \E item \in BufBytes :
          LET r == push(out, item)
          IN  BufCall("push", r.ret = <<>>, r.buf, <<item>>)

BufReserve ==
    /\ pc = "buf"
    /\ \E count \in 0..(BufCap + 2) :
          BufCall("reserve", reserve(out, count), out, <<>>)

BufExtend ==
    /\ pc = "buf"
    /\ \E s \in SeqsUpTo(BufBytes, BufCap + 1) :
          LET r == extend(out, s)
          IN  BufCall("extend", r.ok, r.buf, s)

BufResize ==
    /\ pc = "buf"
    /\ \E len \in 0..(BufCap + 2), item \in BufBytes :
          LET r == resize(out, len, item)
          IN  BufCall("resize", r.ok, r.buf, Fill(len - buf_len(out), item))

NextBuf == BufPush \/ BufReserve \/ BufExtend \/ BufResize

SpecBuf == InitBuf /\ [][NextBuf]_vars

\* ------------------------------------------------------------------------
\* decompress_block on enumerated inputs, into a HeapBuf or an ArrayBuf
\* ------------------------------------------------------------------------
BlockBytes == {0, 1, 2, 17, 97}
\* the inputs of the repository's tests and of the format's corner cases
BlockFixtures ==
    { <<17, 97, 1, 0>>,               \* tests::block_hello
      <<16, 32, 0, 0>>,               \* a zero offset
      <<240, 255>>,                   \* a literal length extension cut short
      <<32, 97, 98, 2, 0>>,           \* an overlapping match at offset 2
      <<31, 97, 1, 0, 0>>,            \* a match length extension
      <<16, 97, 2, 0, 17>>,
      <<48, 97, 98, 99, 3, 0>>,       \* a match of 4 at offset 3, abc -> abcabca
      <<48, 97, 98, 99, 2, 0>>,       \* a match at an offset inside the output
      <<31, 97, 1, 0>>,               \* length extensions: cut short,
      <<31, 97, 1, 0, 255>>,
      <<31, 97, 0, 0, 255, 2>>,       \* of two bytes (before a zero offset),
      <<240, 255, 3>>,                \* longer than the input,
      <<240, 1>> \o Fill(16, 97),     \* and a literal run of 16
      <<240, 0>> \o Fill(15, 97) }
BlockInputs == SeqsUpTo(BlockBytes, MaxBlockLen) \cup BlockFixtures
Buffers == {HeapBuf_new} \cup {ArrayBuf_new(n) : n \in 0..MaxCap}

InitBlock ==
    \E bytes \in BlockInputs, buf \in Buffers :
        Start("block", BlockCall(bytes, buf), Meta("block", bytes, NoParams, 0))

SpecBlock == InitBlock /\ [][NextBlock]_vars


\* ------------------------------------------------------------------------
\* Frames handed to decompress.  A frame is laid out from its parameters
\*   flags, bd   the two descriptor bytes
\*   blocks      a sequence of [stored, payload]
\*   delta       declared content size minus the content's length
\*   endck       whether XXH32 of nothing follows the end marker
\*   cck         whether the content checksum is the content's
\* with the header checksum and the block checksums those of its bytes.
\* ------------------------------------------------------------------------
HeapBuf_from(bytes) == [kind |-> "heap", arr |-> bytes, len |-> Len(bytes)]

BlockChoices ==
    { [stored |-> TRUE,  payload |-> <<104, 105>>],
      [stored |-> TRUE,  payload |-> <<>>],
      [stored |-> FALSE, payload |-> <<17, 97, 1, 0>>],
      [stored |-> FALSE, payload |-> <<32, 97, 98, 2, 0>>] }

RECURSIVE ContentOf(_, _)
ContentOf(blocks, acc) ==
    IF blocks = <<>> THEN acc
    ELSE LET b == Head(blocks)
         IN  ContentOf(Tail(blocks),
                       IF b.stored THEN acc \o b.payload
                       ELSE as_slice(Run(BlockCall(b.payload, HeapBuf_from(acc))).out))

BlockHeaderBytes(b) ==
    <<Len(b.payload) % 256, Len(b.payload) \div 256, 0, IF b.stored THEN 128 ELSE 0>>

RECURSIVE EncodeBlocks(_, _)
EncodeBlocks(flags, blocks) ==
    IF blocks = <<>> THEN <<>>
    ELSE LET b == Head(blocks)
         IN  BlockHeaderBytes(b) \o b.payload
             \o (IF contains(flags, BlockChecksums) THEN U32ToLe(XxHash32(b.payload))
                 ELSE <<>>)
             \o EncodeBlocks(flags, Tail(blocks))

HeaderFields(p) ==
    <<p.flags, p.bd>>
    \o (IF contains(p.flags, ContentSize)
        THEN U64ToLe(Len(ContentOf(p.blocks, <<>>)) + p.delta) ELSE <<>>)

EncodeHeader(p) ==
    U32ToLe(MAGIC) \o HeaderFields(p) \o <<U32ToLe(XxHash32(HeaderFields(p)))[2]>>

EncodeFrame(p) ==
    LET sum == U32ToLe(XxHash32(ContentOf(p.blocks, <<>>)))
    IN  EncodeHeader(p)
        \o EncodeBlocks(p.flags, p.blocks)
        \o <<0, 0, 0, 0>>
        \o (IF p.endck THEN U32ToLe(XxHash32(<<>>)) ELSE <<>>)
        \o (IF ~contains(p.flags, ContentChecksum) THEN <<>>
            ELSE IF p.cck THEN sum
            ELSE <<(sum[1] + 1) % 256, sum[2], sum[3], sum[4]>>)

BlockSeqs == SeqsUpTo(BlockChoices, MaxBlocks)

Params(flagset, seqs) ==
    { [flags |-> f, bd |-> 64, blocks |-> bs, delta |-> d, endck |-> e, cck |-> c] :
        f \in flagset, bs \in seqs, d \in {0, 1}, e \in BOOLEAN, c \in BOOLEAN }

\* one frame per layout: a field a flag switches off has one value
Canonical(p) ==
    /\ contains(p.flags, ContentSize) \/ p.delta = 0
    /\ contains(p.flags, BlockChecksums) \/ ~p.endck
    /\ contains(p.flags, ContentChecksum) \/ p.cck

GenFlags == {96 + b : b \in {0, 4, 8, 12, 16, 20, 24, 28}}
GenParams == {p \in Params(GenFlags, BlockSeqs) : Canonical(p)}
DictParams ==
    {p \in Params({f + DictionaryId : f \in GenFlags}, SeqsUpTo(BlockChoices, 1)) :
        Canonical(p) /\ p.delta = 0 /\ p.cck /\ ~p.endck}
\* the frames this decoder takes to their end
AcceptedParams ==
    {p \in GenParams : p.cck /\ (p.endck <=> contains(p.flags, BlockChecksums))}

\* tests::hello of the first draft, the empty input, a wrong magic number,
\* and a block header above the largest block size with no payload behind it
FrameFixtures ==
    { <<4, 34, 77, 24, 100, 64, 167, 6, 0, 0, 128, 104, 101, 108, 108, 111, 10,
        0, 0, 0, 0, 249, 91, 107, 148>>,
      <<>>,
      <<4, 34, 77, 25, 100, 64, 167>>,
      <<4, 34, 77, 24, 100, 64, 167, 1, 0, 1, 0, 97>> }

Prefixes == {<<120>>, <<97, 98>>}

InitFrame ==
    \/ \E p \in GenParams :
          Start("frame", FrameCall(EncodeFrame(p), HeapBuf_new),
                Meta("gen", EncodeFrame(p), p, 0))
    \/ \E p \in DictParams :
          Start("frame", FrameCall(EncodeFrame(p), HeapBuf_new),
                Meta("dict", EncodeFrame(p), p, 0))
    \/ \E f \in FrameFixtures :
          Start("frame", FrameCall(f, HeapBuf_new), Meta("fixture", f, NoParams, 0))
    \/ \E p \in AcceptedParams, pre \in Prefixes :
          Start("frame", FrameCall(EncodeFrame(p), HeapBuf_from(pre)),
                [Meta("append", EncodeFrame(p), p, 0) EXCEPT !.pre = pre])

SpecFrame == InitFrame /\ [][NextFrame]_vars

\* ------------------------------------------------------------------------
\* Both decoders into buffers of every kind and capacity
\* ------------------------------------------------------------------------
InitCapacity ==
    \/ \E bytes \in BlockInputs, buf \in Buffers :
          Start("block", BlockCall(bytes, buf), Meta("block", bytes, NoParams, 0))
    \/ \E p \in AcceptedParams, buf \in Buffers :
          Start("frame", FrameCall(EncodeFrame(p), buf),
                Meta("gen", EncodeFrame(p), p, 0))
    \/ \E f \in FrameFixtures, buf \in Buffers :
          Start("frame", FrameCall(f, buf), Meta("fixture", f, NoParams, 0))

SpecCapacity == InitCapacity /\ [][NextFrame]_vars


\* ------------------------------------------------------------------------
\* Frames the decoder accepts, with the value of one byte changed: a byte
\* of the header region (flags, descriptor, content size, header checksum)
\* or a byte of a block's payload
\* ------------------------------------------------------------------------
Frame(flags, bd, blocks) ==
    [flags |-> flags, bd |-> bd, blocks |-> blocks, delta |-> 0,
     endck |-> contains(flags, BlockChecksums), cck |-> TRUE]

Stored_hi == [stored |-> TRUE, payload |-> <<104, 105>>]
Packed_a6 == [stored |-> FALSE, payload |-> <<17, 97, 1, 0>>]
Packed_ab == [stored |-> FALSE, payload |-> <<32, 97, 98, 2, 0>>]

HeaderBases ==
    { Frame(64, 64, <<>>),
      Frame(80, 64, <<Stored_hi>>),
      Frame(100, 112, <<Stored_hi>>),
      Frame(108, 64, <<Packed_a6>>) }

PayloadBases ==
    { Frame(112, 64, <<Packed_a6>>),
      Frame(116, 64, <<Stored_hi, Packed_ab>>) }

HeaderLen(p) == 7 + (IF contains(p.flags, ContentSize) THEN 8 ELSE 0)

HeaderPositions(p) == 5..HeaderLen(p)

RECURSIVE PayloadPositionsFrom(_, _, _)
PayloadPositionsFrom(flags, blocks, at) ==
    IF blocks = <<>> THEN {}
    ELSE LET n == Len(Head(blocks).payload)
         IN  ((at + 5)..(at + 4 + n))
             \cup PayloadPositionsFrom(flags, Tail(blocks),
                     at + 4 + n + (IF contains(flags, BlockChecksums) THEN 4 ELSE 0))
PayloadPositions(p) == PayloadPositionsFrom(p.flags, p.blocks, HeaderLen(p))

SetByte(bytes, i, v) == [bytes EXCEPT ![i] = v]

FlipPositions(p) ==
    [header |-> IF p \in HeaderBases THEN HeaderPositions(p) ELSE {},
     payload |-> IF p \in PayloadBases THEN PayloadPositions(p) ELSE {}]

FlipCases(p, base) ==
    {[family |-> "base", input |-> base, n |-> 0]}
    \cup {[family |-> fam, input |-> SetByte(base, i, v), n |-> i] :
            fam \in {"header", "payload"}, i \in 1..Len(base), v \in 0..255}

InitFlip ==
    \/ \E p \in HeaderBases \cup PayloadBases :
          LET base == EncodeFrame(p)
          IN  \E c \in FlipCases(p, base) :
                  /\ c.family # "base" => c.n \in FlipPositions(p)[c.family]
                  /\ c.input # base \/ c.family = "base"
                  /\ Start("frame", FrameCall(c.input, HeapBuf_new),
                           Meta(c.family, base, p, c.n))
    \/ \E f \in FrameFixtures :
          Start("frame", FrameCall(f, HeapBuf_new), Meta("fixture", f, NoParams, 0))

SpecFlip == InitFlip /\ [][NextFrame]_vars


\* ------------------------------------------------------------------------
\* Frames by their layout: headers built field by field, right or wrong in
\* each field and cut short at every length
\* ------------------------------------------------------------------------
MagicLastBytes == {24, 25}
HeaderFlagBytes == {64, 100, 72, 0, 192, 66, 194, 65, 73}
HeaderDescriptorBytes == {64, 112, 0, 48, 192, 65, 143}

\* magic, flag byte, descriptor, content size when flagged, checksum byte
\* (the header's, or the header's plus wrong), end marker
HeaderBytes(m4, flag, bd, wrong) ==
    LET fields == <<flag, bd>>
                  \o (IF contains(flag, ContentSize) THEN U64ToLe(0) ELSE <<>>)
    IN  <<4, 34, 77, m4>> \o fields
        \o <<(header_hash(fields) + wrong) % 256>>
        \o <<0, 0, 0, 0>>

HeaderCases ==
    UNION { LET full == HeaderBytes(m4, flag, bd, wrong)
            IN  {Take(full, k) : k \in 0..Len(full)} :
            m4 \in MagicLastBytes, flag \in HeaderFlagBytes,
            bd \in HeaderDescriptorBytes, wrong \in {0, 1} }

\* a block behind a valid header: the descriptor, the 4 header bytes of the
\* block, the bytes behind them
BlockCase(flag, bd, h, rest) == [flag |-> flag, bd |-> bd, h |-> h, rest |-> rest]

DispatchCases ==
    { \* stored blocks: of no bytes (and a block behind it), of two, cut short
      BlockCase(96, 64, <<0, 0, 0, 128>>, <<0, 0, 0, 0>>),
      BlockCase(96, 64, <<0, 0, 0, 128>>, <<2, 0, 0, 128, 104, 105, 0, 0, 0, 0>>),
      BlockCase(96, 64, <<2, 0, 0, 128>>, <<104, 105, 0, 0, 0, 0>>),
      BlockCase(112, 64, <<2, 0, 0, 128>>,
                <<104, 105, 100, 165, 167, 218, 0, 0, 0, 0, 5, 93, 204, 2>>),
      BlockCase(96, 64, <<3, 0, 0, 128>>, <<104, 105>>),
      BlockCase(96, 64, <<1, 0, 1, 128>>, <<104, 105, 0, 0, 0, 0>>),
      \* blocks for the raw decoder, whole and cut short
      BlockCase(96, 64, <<5, 0, 0, 0>>, <<32, 97, 98, 2, 0, 0, 0, 0, 0>>),
      BlockCase(96, 112, <<4, 0, 0, 0>>, <<17, 97, 1, 0, 0, 0, 0, 0>>),
      BlockCase(96, 64, <<5, 0, 0, 0>>, <<32, 97, 98>>),
      \* at and above the largest block size of descriptor 0x40, 65536
      BlockCase(96, 64, <<0, 0, 1, 0>>, Fill(65536, 0) \o <<0, 0, 0, 0>>),
      BlockCase(96, 64, <<1, 0, 1, 0>>, Fill(65537, 97) \o <<0, 0, 0, 0>>),
      BlockCase(96, 64, <<1, 0, 1, 0>>, Fill(65536, 97)),
      \* the same 65537 bytes below the largest block size of descriptor 0x70
      BlockCase(96, 112, <<1, 0, 1, 0>>, Fill(65537, 0) \o <<0, 0, 0, 0>>) }

DispatchInput(c) == Take(HeaderBytes(24, c.flag, c.bd, 0), 7) \o c.h \o c.rest

\* frames as the format lays them out (no checksum behind the end marker),
\* of at most one block, and the bytes put behind them
TrailParams ==
    {p \in GenParams : p.cck /\ p.delta = 0 /\ ~p.endck /\ Len(p.blocks) <= 1}
Trailers == {<<0>>, <<5, 93, 204, 2>>, <<255, 255, 255, 255, 255>>, <<4, 34, 77, 24>>}

InitLayout ==
    \/ \E p \in HeaderBases \cup PayloadBases :
          LET base == EncodeFrame(p)
          IN  Start("frame", FrameCall(base, HeapBuf_new), Meta("base", base, p, 0))
    \/ \E f \in FrameFixtures :
          Start("frame", FrameCall(f, HeapBuf_new), Meta("fixture", f, NoParams, 0))
    \/ \E h \in HeaderCases :
          Start("frame", FrameCall(h, HeapBuf_new), Meta("layout", h, NoParams, 0))
    \/ \E p \in TrailParams :
          LET base == EncodeFrame(p)
          IN  \E t \in Trailers :
                  Start("frame", FrameCall(base \o t, HeapBuf_new),
                        Meta("trail", base, p, Len(t)))
    \/ \E c \in DispatchCases :
          Start("frame", FrameCall(DispatchInput(c), HeapBuf_new),
                Meta("dispatch", DispatchInput(c), NoParams, 0))

SpecLayout == InitLayout /\ [][NextFrame]_vars


\* ========================================================================
\* The claims
\* ========================================================================
BlockErrors == {"UnexpectedEof", "ZeroMatchOffset", "MemoryLimitExceeded"}
HeaderErrors ==
    {"ReservedBitHigh", "VersionNotSupported", "InvalidMaxBlockSize",
     "HeaderChecksumInvalid"}

\* C1 (SpecBlock): decompress_block always ends by returning Ok or one of
\* UnexpectedEof, ZeroMatchOffset, MemoryLimitExceeded; it never aborts.
\* The code aborts in copy: `.expect(..)` at offset 1 with an empty output,
\* `out_len - offset` at an offset beyond the output.
C1_BlockNeverAborts ==
    (mode = "block" /\ pc = "done") => res \in {"Ok"} \cup BlockErrors

\* a valid header up to the dictionary check, with the DictionaryId bit set
DictionaryHeader(bytes) ==
    /\ Len(bytes) >= 6
    /\ Take(bytes, 4) = U32ToLe(MAGIC)
    /\ bytes[5] \div 64 = 1
    /\ ~contains(bytes[5], 2)
    /\ contains(bytes[5], DictionaryId)
    /\ bytes[6] < 128 /\ bytes[6] % 16 = 0 /\ bytes[6] \div 16 \in 4..7
    /\ (contains(bytes[5], ContentSize) => Len(bytes) >= 14)

\* C2 (SpecFrame): a frame whose flag byte has DictionaryId set, behind an
\* otherwise valid header, is answered with the error value InvalidInput and
\* nothing is decoded.  The code aborts on its assert! instead.
C2_DictionaryRejected ==
    (mode = "frame" /\ pc = "done" /\ DictionaryHeader(input))
        => (res = "InvalidInput" /\ as_slice(out) = <<>>)

\* C3 (SpecFrame): with ContentSize declared and every other check passed,
\* the result is ContentSizeInvalid when the declared size differs from the
\* number of bytes decoded, and Ok only when they are equal.  The code reads
\* the size and never compares it.
C3_ContentSizeCompared ==
    (mode = "frame" /\ pc = "done" /\ meta.pre = <<>>
     /\ contains(loc.flags, ContentSize) /\ res \in {"Ok", "ContentSizeInvalid"})
        => (res = "Ok" <=> loc.content_size = <<U64ToLe(buf_len(out))>>)

\* C4 (SpecFrame): the step that handles a block header of 0 consumes no
\* input and goes on to the content checksum, with or without BlockChecksums.
\* The code reads 4 more bytes there when BlockChecksums is set.
C4_EndMarkerReadsNothing ==
    [][(mode = "frame" /\ pc = "f_end_marker")
          => (idx' = idx /\ pc' = "f_content_checksum")]_vars

\* the same input decoded into an empty growable buffer
Reference ==
    IF mode = "block" THEN decompress_block(input, HeapBuf_new)
    ELSE decompress(input, HeapBuf_new)

HeaderChecksumCollides(bytes) ==
    LET n == IF contains(bytes[5], ContentSize) THEN 10 ELSE 2
    IN  /\ Len(bytes) >= n + 5
        /\ bytes[n + 5] = U32ToLe(XxHash32(SubSeq(bytes, 5, n + 4)))[2]

HeaderFlipDone ==
    /\ meta.family = "header" /\ pc = "done"
    /\ decompress(meta.base, HeapBuf_new).res = "Ok"

\* C6 as stated (SpecFlip): changing one byte of the header region of a frame
\* that decodes successfully gives ReservedBitHigh, VersionNotSupported,
\* InvalidMaxBlockSize or HeaderChecksumInvalid, and nothing else.
C6_HeaderFlipFourErrors == HeaderFlipDone => res \in HeaderErrors

\* C6 amended (SpecFlip): ... gives one of the four errors, except that it
\* gives UnexpectedEof when the new flag byte sets ContentSize and the input
\* ends before the size and checksum bytes, aborts when the new flag byte
\* sets DictionaryId, and goes on into the blocks when the changed header
\* has the checksum byte the frame carries.
C6_HeaderFlipAmended ==
    HeaderFlipDone =>
        \/ res \in HeaderErrors
        \/ res = "UnexpectedEof" /\ contains(input[5], ContentSize) /\ Len(input) < 15
        \/ res = "Panic" /\ contains(input[5], DictionaryId)
        \/ HeaderChecksumCollides(input)

\* C6's case: a changed content size byte caught by the header checksum
C6_Witness ==
    /\ HeaderFlipDone /\ meta.n \in 7..14 /\ contains(input[5], ContentSize)
    /\ ~HeaderChecksumCollides(input)
    /\ res = "HeaderChecksumInvalid"

\* C7 (SpecBuf): for an ArrayBuf of capacity N, after any calls of push,
\* reserve, extend and resize the length is at most N and as_slice is the
\* bytes appended by the successful calls in order; a call that reports
\* failure leaves length and contents as they were.
C7_ArrayBufContract ==
    mode = "buf" =>
        /\ Len(out.arr) = meta.n
        /\ out.len <= meta.n
        /\ as_slice(out) = appended
        /\ ~last.ok => as_slice(out) = last.before

\* C7's case: a full buffer of at least two bytes refuses a resize to a
\* smaller length
C7_Witness ==
    /\ mode = "buf" /\ last.op = "resize" /\ ~last.ok
    /\ out.len = meta.n /\ out.len >= 2 /\ as_slice(out) = <<1, 0>> \o Fill(out.len - 2, 1)

\* C8 (SpecFrame): if a frame decodes successfully into an empty growable
\* buffer giving D, then decoding it into a growable buffer holding P
\* succeeds and leaves P followed by D, for every combination of flags.
\* With ContentChecksum the code hashes P with D.
C8_DecodingAppends ==
    (meta.family = "append" /\ pc = "done" /\ Reference.res = "Ok")
        => (res = "Ok" /\ as_slice(out) = meta.pre \o as_slice(Reference.out))

\* C9 (SpecFrame): with ContentChecksum set and an empty buffer at the call,
\* the 4 bytes behind the end marker are compared with XXH32 of the output:
\* the result is ContentChecksumInvalid if they differ and never if they are
\* equal.  With BlockChecksums set the code takes those bytes for a block
\* checksum of the end marker (C4).
C9_ContentChecksumBehindEndMarker ==
    (mode = "frame" /\ meta.pre = <<>> /\ pc = "f_end_marker"
     /\ contains(loc.flags, ContentChecksum) /\ read(input, idx, 4).ok)
        => IF U32FromLe(read(input, idx, 4).val) # XxHash32(as_slice(out))
           THEN Run(Cur).res = "ContentChecksumInvalid"
           ELSE Run(Cur).res # "ContentChecksumInvalid"

\* C10 (SpecFlip): with BlockChecksums set, changing a byte of a block's
\* payload in a frame that decodes successfully gives BlockChecksumInvalid,
\* unless decoding the payload already returned an error value.  The changed
\* payload can make copy abort (C1).
C10_PayloadFlipDetected ==
    (meta.family = "payload" /\ pc = "done"
     /\ decompress(meta.base, HeapBuf_new).res = "Ok")
        => res \in {"BlockChecksumInvalid"} \cup BlockErrors

\* the outcome of the header checks taken in input order: the error of the
\* first one that fails, "pass" when none does
HeaderVerdict(bytes) ==
    LET n == IF contains(bytes[5], ContentSize) THEN 8 ELSE 0
    IN  IF Len(bytes) < 4 THEN "UnexpectedEof"
        ELSE IF Take(bytes, 4) # <<4, 34, 77, 24>> THEN "InvalidMagic"
        ELSE IF Len(bytes) < 5 THEN "UnexpectedEof"
        ELSE IF bytes[5] \div 64 # 1 THEN "VersionNotSupported"
        ELSE IF (bytes[5] \div 2) % 2 = 1 THEN "ReservedBitHigh"
        ELSE IF Len(bytes) < 6 THEN "UnexpectedEof"
        ELSE IF bytes[6] >= 128 \/ bytes[6] % 16 # 0 THEN "ReservedBitHigh"
        ELSE IF (bytes[6] \div 16) % 8 \notin 4..7 THEN "InvalidMaxBlockSize"
        ELSE IF Len(bytes) < 7 + n THEN "UnexpectedEof"
        ELSE IF bytes[7 + n] # U32ToLe(XxHash32(SubSeq(bytes, 5, 6 + n)))[2]
             THEN "HeaderChecksumInvalid"
        ELSE "pass"

HeaderStage ==
    {"f_magic", "f_flags", "f_descriptor", "f_content_size", "f_dictionary",
     "f_header_checksum"}

\* C11 (SpecLayout): the frame decoder checks the header fields in input
\* order and returns the error of the first check that fails (UnexpectedEof,
\* InvalidMagic, VersionNotSupported, ReservedBitHigh, InvalidMaxBlockSize,
\* HeaderChecksumInvalid), and appends nothing before all of them passed.
\* With DictionaryId set the code aborts before it reads the checksum (C2).
C11_HeaderChecksInOrder ==
    mode = "frame" =>
        /\ (pc \in HeaderStage \/ HeaderVerdict(input) # "pass") => as_slice(out) = <<>>
        /\ (pc = "done" /\ HeaderVerdict(input) # "pass") => res = HeaderVerdict(input)
        /\ (pc = "done" /\ HeaderVerdict(input) = "pass")
              => res \notin (HeaderErrors \cup {"InvalidMagic"})

\* C12 (SpecBlock): a match copy of match_len bytes at offset d, 1 <= d <= L
\* (L the output length before it), with enough capacity, appends exactly
\* match_len bytes and leaves the first L unchanged; the byte at L+i is the
\* byte at L+i-d of the result; for d = 1 the last-byte fill gives what the
\* byte-by-byte copy gives.
C12_MatchCopy ==
    [][(pc = "b_copy" /\ loc.offset \in 1..buf_len(out) /\ reserve(out, loc.len))
          => LET L  == buf_len(out)
                 o2 == as_slice(out')
             IN  /\ pc' = "b_token"
                 /\ Len(o2) = L + loc.len
                 /\ Take(o2, L) = as_slice(out)
                 /\ \A i \in 1..loc.len : o2[L + i] = o2[L + i - loc.offset]
                 /\ loc.offset = 1
                       => o2 = as_slice(copy_loop(out, L - 1, 0, loc.len).buf)]_vars

\* C12's case: ab followed by a match of 4 at offset 2, the copy overlapping
\* what it writes
C12_Witness ==
    /\ mode = "block" /\ pc = "done" /\ res = "Ok"
    /\ input = <<32, 97, 98, 2, 0>> /\ loc.offset = 2 /\ loc.len = 4
    /\ as_slice(out) = <<97, 98, 97, 98, 97, 98>>

\* a length extension that meets the end of the input: the nibble is 15 and
\* every byte from position i on is 255
ExtensionCutShort(bytes, i, first) ==
    first = 15 /\ \A j \in i..Len(bytes) : bytes[j] = 255

\* C13 (SpecBlock): with a growable output buffer, decompress_block returns
\* success exactly when the input is exhausted where a token is expected or
\* where the offset low byte is expected, appending nothing at that step;
\* exhaustion at any other read (inside a length extension, inside the
\* literal run, at the offset high byte) returns UnexpectedEof.
C13_ExhaustionPoints ==
    [][(mode = "block" /\ out.kind = "heap")
          => LET n == Len(data)
                 expected == pc \in {"b_token", "b_offset"} /\ bidx = n
                 elsewhere ==
                     \/ pc = "b_token" /\ bidx < n
                        /\ ExtensionCutShort(data, bidx + 2, data[bidx + 1] \div 16)
                     \/ pc = "b_literal" /\ n - bidx < loc.len
                     \/ pc = "b_offset" /\ bidx + 1 = n
                     \/ pc = "b_offset" /\ bidx + 1 < n
                        /\ ExtensionCutShort(data, bidx + 3, loc.token % 16)
             IN  /\ res' = "Ok" <=> expected
                 /\ expected => out' = out
                 /\ res' = "UnexpectedEof" <=> elsewhere]_vars

\* C13's case: the input ends behind a literal run, where the offset low
\* byte would be
C13_Witness ==
    /\ mode = "block" /\ out.kind = "heap" /\ pc = "done" /\ res = "Ok"
    /\ input = <<17, 97>> /\ bidx = 2 /\ as_slice(out) = <<97>>

RECURSIVE SumBytes(_, _, _)
SumBytes(bytes, i, j) == IF i > j THEN 0 ELSE bytes[i] + SumBytes(bytes, i + 1, j)

\* the position of the first byte smaller than 255 from position i on
ExtensionEnd(bytes, i) ==
    CHOOSE j \in i..Len(bytes) :
        bytes[j] < 255 /\ \A k \in i..(j - 1) : bytes[k] = 255

\* what the claim says of read_int(first) with the cursor before position i:
\* the value returned and the cursor after it
ExtensionLength(bytes, i, first) ==
    IF first # 15 THEN [val |-> first, idx |-> i - 1]
    ELSE [val |-> 15 + SumBytes(bytes, i, ExtensionEnd(bytes, i)),
          idx |-> ExtensionEnd(bytes, i)]

\* C14 (SpecBlock): read_int(first) returns first and consumes nothing when
\* first # 15; when first = 15 it consumes the bytes up to and including the
\* first one smaller than 255 and returns 15 plus the sum of all of them; if
\* the input ends before such a byte it returns UnexpectedEof.
C14_LengthExtension ==
    [][/\ (pc = "b_token" /\ bidx < Len(data))
            => LET first == data[bidx + 1] \div 16
               IN  IF ExtensionCutShort(data, bidx + 2, first)
                   THEN res' = "UnexpectedEof"
                   ELSE /\ pc' = "b_literal"
                        /\ loc'.len = ExtensionLength(data, bidx + 2, first).val
                        /\ bidx' = ExtensionLength(data, bidx + 2, first).idx
       /\ (pc = "b_offset" /\ bidx + 2 <= Len(data))
            => LET first == loc.token % 16
               IN  IF ExtensionCutShort(data, bidx + 3, first)
                   THEN res' = "UnexpectedEof"
                   ELSE /\ pc' = "b_copy"
                        /\ loc'.len = 4 + ExtensionLength(data, bidx + 3, first).val
                        /\ bidx' = ExtensionLength(data, bidx + 3, first).idx]_vars

\* C14's case: F0 FF 03, an extension of two bytes, gives 15 + 255 + 3
C14_Witness ==
    /\ mode = "block" /\ pc = "b_literal" /\ data = <<240, 255, 3>>
    /\ loc.len = 273 /\ bidx = 3

BlockArms == {"f_uncompressed", "f_oversize", "f_compressed"}

\* C15 (SpecLayout): a block header h of 0 is the end marker and no other
\* is; for h # 0 the decoder consumes exactly h & 0x7FFFFFFF payload bytes,
\* or fails with UnexpectedEof if fewer remain; the payload is appended
\* verbatim if bit 31 of h is set or h is greater than the largest block size
\* 1 << (idx*2 + 8) of the descriptor, and is handed to the raw block decoder
\* otherwise.
C15_BlockDispatch ==
    [][/\ (pc = "f_block_header" /\ Len(input) - idx >= 4)
            => (pc' = "f_end_marker" <=> SubSeq(input, idx + 1, idx + 4) = <<0, 0, 0, 0>>)
       /\ (pc = "f_block_header" /\ Len(input) - idx >= 4
             /\ SubSeq(input, idx + 1, idx + 4) # <<0, 0, 0, 0>>)
            => pc' \in BlockArms
       /\ (pc \in BlockArms /\ out.kind = "heap")
            => LET h == SubSeq(input, idx - 3, idx)
                   n == h[1] + (256 * h[2]) + (65536 * h[3]) + (16777216 * (h[4] % 128))
                   largest == 2 ^ ((((input[6] \div 16) % 8) * 2) + 8)
               IN  IF Len(input) - idx < n THEN res' = "UnexpectedEof"
                   ELSE /\ idx' = idx + n
                        /\ IF h[4] >= 128 \/ n > largest
                           THEN /\ as_slice(out') = as_slice(out) \o SubSeq(input, idx + 1, idx + n)
                                /\ pc' = "f_block_checksum"
                           ELSE /\ data' = SubSeq(input, idx + 1, idx + n)
                                /\ bidx' = 0 /\ pc' = "b_token"
                                /\ out' = out]_vars

\* C15's case: a block header of 0x80000000 is a stored block of no bytes,
\* and the stored block behind it is appended as it is
C15_Witness ==
    /\ mode = "frame" /\ pc = "done" /\ res = "Ok"
    /\ Len(input) >= 15
    /\ SubSeq(input, 8, 15) = <<0, 0, 0, 128, 2, 0, 0, 128>>
    /\ as_slice(out) = <<104, 105>> /\ idx = Len(input)

\* C16 (SpecLayout): the frame decoder reads nothing past the end of the
\* frame, the end marker and the content checksum when flagged: with bytes
\* put behind a frame the cursor never passes the frame's end, and if the
\* frame alone decodes successfully, so does the longer input, with the same
\* output.  With BlockChecksums set the code reads 4 bytes behind the end
\* marker as a block checksum (C4).
C16_NothingReadPastFrame ==
    meta.family = "trail" =>
        /\ idx <= Len(meta.base)
        /\ (pc = "done" /\ decompress(meta.base, HeapBuf_new).res = "Ok")
              => /\ res = "Ok"
                 /\ out = decompress(meta.base, HeapBuf_new).out

====
